---- MODULE Spec2Model ----
\* Model of functions/product_image_analyzer/main.py: the HTTP Cloud Function
\* that analyses a product image with Gemini and writes the result back onto
\* the Supabase product_images row.
EXTENDS Integers, Sequences, FiniteSets, TLC

\* ---------------------------------------------------------------- bounds
NumReqs == 2        \* handler invocations that may be in flight
MaxClock == 1       \* readings of the UTC clock
MaxUrls == 2        \* length of a row's image_urls list
MaxParts == 2       \* content parts of a Gemini candidate
MaxCands == 2       \* candidates of a Gemini response

\* ---------------------------------------------------------------- values
\* A Python Optional is a sequence of length <= 1: None is <<>>, a value v is <<v>>.
None == <<>>
Some(v) == <<v>>

\* Python truthiness of an Optional[str] / Optional[list]: None, "" and [] are falsy.
TruthyStr(o) == o # None /\ o[1] # ""
TruthyList(o) == o # None /\ o[1] # <<>>

SeqsUpTo(S, n) == UNION {[1..k -> S] : k \in 0..n}

Reqs == 1..NumReqs

\* product_image_id values a caller may send: absent/null, "", an id with a row
\* and an id without one.
IdInputs == {None, Some(""), Some("a"), Some("zz")}
UrlInputs == {None, Some(""), Some("u")}

\* Request bodies as request.get_json(silent=True) sees them.
Bodies ==
    {[kind |-> k, empty |-> TRUE, product_image_id |-> None, image_url |-> None] :
        k \in {"absent", "malformed", "list", "string"}}
    \cup {[kind |-> k, empty |-> FALSE, product_image_id |-> None, image_url |-> None] :
        k \in {"list", "string"}}
    \cup {[kind |-> "object", empty |-> (i = None /\ u = None),
           product_image_id |-> i, image_url |-> u] : i \in IdInputs, u \in UrlInputs}

Methods == {"POST", "GET"}

\* Rows of product_images as far as the function reads them.
ImageUrlLists == {None} \cup {Some(l) : l \in SeqsUpTo({"", "i"}, MaxUrls)}
PriorMetadata == {<<"legacy", "x">>, <<"title", "old">>}
RecordFields ==
    [thumbnail_url : {None, Some(""), Some("t")},
     primary_image_url : {None, Some(""), Some("p")},
     image_urls : ImageUrlLists]
MkRow(f, meta, at) ==
    [thumbnail_url |-> f.thumbnail_url, primary_image_url |-> f.primary_image_url,
     image_urls |-> f.image_urls, ai_metadata |-> meta, updated_at |-> at]

\* JSON objects are sets of <<key, value>> pairs.
ObjA == {<<"title", "Mango Sorbet Cup">>, <<"price_inr", "150">>}
ObjB == {<<"category", "kulfi">>}
TextA == "{\"title\": \"Mango Sorbet Cup\", \"price_inr\": \"150\"}"
TextB == "{\"category\": \"kulfi\"}"
TextBad == "Sorry, I cannot help"

\* json.loads on the texts the model backend may return: the parsed value, or
\* JSONDecodeError.
IsJson(text) == text \in {TextA, TextB}
json_loads(text) == IF text = TextA THEN ObjA ELSE ObjB

\* A content part: text is None for a non-text part.
PartTexts == {None, Some(""), Some(TextBad), Some(TextA)}
PartSeqs == SeqsUpTo(PartTexts, MaxParts)
OtherCandidates == {<<Some(TextB)>>}
GeminiResponses ==
    {<<>>} \cup {<<first>> \o rest : first \in PartSeqs,
                                    rest \in SeqsUpTo(OtherCandidates, MaxCands - 1)}

\* generate_content returns a response or raises.
GenerateOutcomes(responses) ==
    {[raised |-> FALSE, response |-> x] : x \in responses}
    \cup {[raised |-> TRUE, response |-> <<>>]}

\* ---------------------------------------------------------------- exceptions
\* An exception is its class and its message (template, detail).
Raise(cls, template, detail) == [ok |-> FALSE, cls |-> cls, msg |-> <<template, detail>>]
Return(v) == [ok |-> TRUE, val |-> v]

\* `except ValueError` catches ValueError and its subclasses.
IsValueError(cls) == cls \in {"ValueError"}

\* _select_image_url with the first two tests exchanged.
select_primary_first(record) ==
    IF TruthyStr(record.primary_image_url) THEN Return(record.primary_image_url[1])
    ELSE IF TruthyStr(record.thumbnail_url) THEN Return(record.thumbnail_url[1])
    ELSE IF TruthyList(record.image_urls) THEN Return(record.image_urls[1][1])
    ELSE Raise("ValueError", "No usable image URL found in product_images record", "")

\* _select_image_url (lines 66-80)
_select_image_url(record) ==
    IF TruthyStr(record.thumbnail_url) THEN Return(record.thumbnail_url[1])
    ELSE IF TruthyStr(record.primary_image_url) THEN Return(record.primary_image_url[1])
    ELSE IF TruthyList(record.image_urls) THEN Return(record.image_urls[1][1])
    ELSE Raise("ValueError", "No usable image URL found in product_images record", "")

\* The loop of _call_gemini over candidate.content.parts (lines 134-141), from
\* part i on.
RECURSIVE ScanParts(_, _)
ScanParts(parts, i) ==
    IF i > Len(parts)
    THEN Raise("RuntimeError", "Gemini candidate had no textual JSON content", "")
    ELSE IF TruthyStr(parts[i])
         THEN IF IsJson(parts[i][1])
              THEN Return(json_loads(parts[i][1]))
              ELSE Raise("ValueError", "Gemini response is not valid JSON: ", parts[i][1])
         ELSE ScanParts(parts, i + 1)

\* _call_gemini reading the last candidate instead of the first.
call_gemini_last_candidate(response) ==
    IF response = <<>>
    THEN Raise("RuntimeError", "Gemini returned no candidates", "")
    ELSE ScanParts(response[Len(response)], 1)

\* Response handling of _call_gemini (lines 129-141).
_call_gemini(response) ==
    IF response = <<>>
    THEN Raise("RuntimeError", "Gemini returned no candidates", "")
    ELSE ScanParts(response[1], 1)

\* ---------------------------------------------------------------- state
VARIABLES
    store,    \* product_images: id -> row
    clock,    \* datetime.now(timezone.utc)
    inv       \* handler invocations: position, locals, calls made, response

vars == <<store, clock, inv>>

StoreIds == {"a"}

NoResponse == None
Blank ==
    [pc |-> "idle", method |-> "", body |-> None, image_id |-> None, image_url |-> None,
     record |-> None, derived_url |-> None, gemini_response |-> None, analysis |-> None, payload |-> None,
     started_at |-> 0, calls |-> <<>>, response |-> NoResponse]

\* ---------------------------------------------------------------- responses
\* ("Method Not Allowed", 405): a text body, no headers (line 187).
MethodNotAllowed ==
    [status |-> 405, content_type |-> None, text |-> Some("Method Not Allowed"),
     error |-> None, source_image_url |-> None, analysis |-> None]

\* (json.dumps({"error": str(exc)}), status, {"Content-Type": "application/json"})
JsonError(status, msg) ==
    [status |-> status, content_type |-> Some("application/json"), text |-> None,
     error |-> Some(msg), source_image_url |-> None, analysis |-> None]

\* (json.dumps(result), 200, {"Content-Type": "application/json"}) (lines 212-216)
JsonResult(url, analysis) ==
    [status |-> 200, content_type |-> Some("application/json"), text |-> None,
     error |-> None, source_image_url |-> Some(url), analysis |-> Some(analysis)]

\* The except clauses around _analyze (lines 199-210).
HandleException(exc) ==
    IF IsValueError(exc.cls) THEN JsonError(400, exc.msg) ELSE JsonError(500, exc.msg)

\* request.get_json(silent=True) or {} (line 190): None for an absent or
\* malformed body, and any falsy value becomes {}.
IsDict(body) == body.kind = "object" \/ body.kind \in {"absent", "malformed"} \/ body.empty

\* `if image_id:` with the caller's URL taking precedence over the id.
ResolutionUrlFirst(image_id, image_url) ==
    IF TruthyStr(image_url) \/ ~TruthyStr(image_id) THEN "direct" ELSE "record"

\* `if image_id:` (line 163): which input the URL is resolved from.
Resolution(image_id, image_url) == IF TruthyStr(image_id) THEN "record" ELSE "direct"

\* The test of line 174 left out: every analysis is written back.
ShouldPersistAlways(image_id, record) == TRUE

\* `if image_id and record is not None` (line 174)
ShouldPersist(image_id, record) == TruthyStr(image_id) /\ record # None

\* payload of _update_ai_metadata (lines 147-150)
UpdatePayload(metadata, now) == [ai_metadata |-> metadata, updated_at |-> now]

\* An update that merges the new metadata into the old.
MergedRow(row, payload) ==
    [row EXCEPT !.ai_metadata = @ \cup payload.ai_metadata,
                !.updated_at = payload.updated_at]

\* .update(payload).eq("id", image_id).execute() on the row (line 153)
UpdatedRow(row, payload) ==
    [row EXCEPT !.ai_metadata = payload.ai_metadata, !.updated_at = payload.updated_at]

\* ---------------------------------------------------------------- steps
\* Each step is a function from the invocation's state to its next state.

\* A call that has ended, and how: returned (ok) or raised.
Log(cur, stage, ok) == [cur EXCEPT !.calls = Append(@, [stage |-> stage, ok |-> ok])]

Done(cur, resp) == [cur EXCEPT !.pc = "done", !.response = Some(resp)]

\* `if not derived_url` (lines 167-170): raise, or go on to the download.
AfterResolve(cur) ==
    IF TruthyStr(cur.derived_url)
    THEN [cur EXCEPT !.pc = "download"]
    ELSE Done(cur, HandleException(
            Raise("ValueError", "No image URL provided or found in Supabase record", "")))

\* analyze_product_image up to the first blocking call (lines 186-198, 160-168).
Received(idle, method, body, now) ==
    LET cur == [idle EXCEPT !.method = method, !.body = Some(body), !.started_at = now]
    IN  IF method # "POST"
        THEN Done(cur, MethodNotAllowed)
        ELSE IF ~IsDict(body)
        THEN [cur EXCEPT !.pc = "raised"]       \* payload.get: AttributeError
        ELSE LET id == IF body.kind = "object" THEN body.product_image_id ELSE None
                 url == IF body.kind = "object" THEN body.image_url ELSE None
                 got == [cur EXCEPT !.image_id = id, !.image_url = url, !.derived_url = url]
             IN  IF Resolution(id, url) = "record"
                 THEN [got EXCEPT !.pc = "fetch"]
                 ELSE AfterResolve(got)

\* _fetch_product_image_record, then _select_image_url (lines 164-168, 49-63).
Fetched(cur, backend_ok, rows) ==
    LET id == cur.image_id[1]
    IN  IF ~backend_ok
        THEN Done(Log(cur, "fetch", FALSE), HandleException(Raise("APIError", "APIError", "")))
        ELSE IF id \notin DOMAIN rows
        THEN Done(Log(cur, "fetch", FALSE), HandleException(
                Raise("ValueError", "No product_images row found for id ", id)))
        ELSE LET sel == _select_image_url(rows[id])
                 got == [Log(cur, "fetch", TRUE) EXCEPT !.record = Some(rows[id])]
             IN  IF ~sel.ok
                 THEN Done(Log(got, "select", FALSE), HandleException(sel))
                 ELSE AfterResolve([Log(got, "select", TRUE) EXCEPT
                                       !.derived_url = Some(sel.val)])

\* _download_image with the failure swallowed: the model is called all the same.
DownloadedIgnoringFailure(cur, outcome) ==
    [Log(cur, "download", outcome = "ok") EXCEPT !.pc = "gemini"]

\* _download_image (lines 83-87, 170).
Downloaded(cur, outcome) ==
    IF outcome = "ok"
    THEN [Log(cur, "download", TRUE) EXCEPT !.pc = "gemini"]
    ELSE Done(Log(cur, "download", FALSE), HandleException(Raise(outcome, outcome, "")))

\* generate_content (lines 118-127), called with the downloaded bytes: it
\* raises, or its response is at hand.
Generated(cur, outcome) ==
    IF outcome.raised
    THEN Done(Log(cur, "gemini", FALSE),
              HandleException(Raise("ClientError", "ClientError", "")))
    ELSE [cur EXCEPT !.pc = "parse", !.gemini_response = Some(outcome.response)]

\* The rest of _call_gemini, then the payload of _update_ai_metadata or the
\* result (lines 129-141, 172-180, 146-150).
Parsed(cur, now) ==
    LET res == _call_gemini(cur.gemini_response[1])
        got == [Log(cur, "gemini", res.ok) EXCEPT !.gemini_response = None]
    IN  IF ~res.ok
        THEN Done(got, HandleException(res))
        ELSE IF ShouldPersist(got.image_id, got.record)
        THEN [got EXCEPT !.pc = "update", !.analysis = Some(res.val),
                         !.payload = Some(UpdatePayload(res.val, now))]
        ELSE Done([got EXCEPT !.analysis = Some(res.val)],
                  JsonResult(got.derived_url[1], res.val))

\* _update_ai_metadata with the failure swallowed (`except APIError: pass`).
PersistedSwallowing(cur, outcome) ==
    [Log(cur, "update", outcome = "ok") EXCEPT !.pc = "persisted"]

\* The end of _update_ai_metadata (lines 152-155): the update went through, or
\* APIError is wrapped in RuntimeError, or another exception passes.
Persisted(cur, outcome) ==
    IF outcome = "ok"
    THEN [Log(cur, "update", TRUE) EXCEPT !.pc = "persisted"]
    ELSE Done(Log(cur, "update", FALSE), HandleException(
            IF outcome = "APIError"
            THEN Raise("RuntimeError",
                       "Failed to update product_images.ai_metadata: ", "APIError")
            ELSE Raise(outcome, outcome, "")))

\* return of _analyze and of the handler (lines 177-180, 212-216).
Responded(cur) == Done(cur, JsonResult(cur.derived_url[1], cur.analysis[1]))

Set(r, f) == inv' = [inv EXCEPT ![r] = f]

ReceiveStep(r, method, body) ==
    /\ inv[r].pc = "idle"
    /\ Set(r, Received(inv[r], method, body, clock))
    /\ UNCHANGED <<store, clock>>

FetchStep(r, backend_ok) ==
    /\ inv[r].pc = "fetch"
    /\ Set(r, Fetched(inv[r], backend_ok, store))
    /\ UNCHANGED <<store, clock>>

DownloadStep(r, outcome) ==
    /\ inv[r].pc = "download"
    /\ Set(r, Downloaded(inv[r], outcome))
    /\ UNCHANGED <<store, clock>>

GenerateStep(r, outcome) ==
    /\ inv[r].pc = "gemini"
    /\ Set(r, Generated(inv[r], outcome))
    /\ UNCHANGED <<store, clock>>

ParseStep(r) ==
    /\ inv[r].pc = "parse"
    /\ Set(r, Parsed(inv[r], clock))
    /\ UNCHANGED <<store, clock>>

\* _call_gemini as one step: the call and the handling of its response.
GeminiStep(r, outcome) ==
    /\ inv[r].pc = "gemini"
    /\ LET cur == Generated(inv[r], outcome)
       IN  Set(r, IF cur.pc = "parse" THEN Parsed(cur, clock) ELSE cur)
    /\ UNCHANGED <<store, clock>>

\* The update request of _update_ai_metadata (line 153) and its outcome.
UpdateStep(r, outcome) ==
    /\ inv[r].pc = "update"
    /\ store' = IF outcome = "ok"
                THEN [store EXCEPT ![inv[r].image_id[1]] = UpdatedRow(@, inv[r].payload[1])]
                ELSE store
    /\ Set(r, Persisted(inv[r], outcome))
    /\ UNCHANGED clock

RespondStep(r) ==
    /\ inv[r].pc = "persisted"
    /\ Set(r, Responded(inv[r]))
    /\ UNCHANGED <<store, clock>>

\* The clock advances between any two steps.
Tick ==
    /\ clock < MaxClock
    /\ clock' = clock + 1
    /\ UNCHANGED <<store, inv>>

\* ---------------------------------------------------------------- environment
FetchOutcomes == BOOLEAN                               \* execute() returns / raises
DownloadOutcomes == {"ok", "HTTPError", "ConnectionError"}
UpdateOutcomes == {"ok", "APIError", "ConnectError"}

\* Requests and model outputs of the concurrent runs: record-id requests for the
\* stored row.
ConcBodies ==
    {[kind |-> "object", empty |-> FALSE, product_image_id |-> Some("a"),
      image_url |-> None]}
ConcResponses == {<< <<Some(TextA)>> >>, << <<Some(TextB)>> >>, << <<Some(TextBad)>> >>}

\* One invocation at a time: the hosting environment hands worker 1 a request.
Receive(r) ==
    /\ r = 1
    /\ \E method \in Methods, body \in Bodies : ReceiveStep(r, method, body)

\* Invocations overlap: any idle worker may be handed a request.
ReceiveConcurrently(r) == \E body \in ConcBodies : ReceiveStep(r, "POST", body)

Fetch(r) == \E backend_ok \in FetchOutcomes : FetchStep(r, backend_ok)

Download(r) == \E outcome \in DownloadOutcomes : DownloadStep(r, outcome)

Generate(r) ==
    \E outcome \in GenerateOutcomes(GeminiResponses) : GenerateStep(r, outcome)

Parse(r) == ParseStep(r)

GeminiConcurrently(r) ==
    \E outcome \in GenerateOutcomes(ConcResponses) : GeminiStep(r, outcome)

Update(r) == \E outcome \in UpdateOutcomes : UpdateStep(r, outcome)

Respond(r) == RespondStep(r)

\* ---------------------------------------------------------------- specifications
InitInv == inv = [r \in Reqs |-> Blank]

InitialRow(f) == MkRow(f, PriorMetadata, 0)

\* One invocation, any row, any request, any model output; the clock stands still.
Init ==
    /\ \E f \in RecordFields : store = [i \in StoreIds |-> InitialRow(f)]
    /\ clock = 0
    /\ InitInv

Next ==
    \E r \in Reqs :
        \/ Receive(r)
        \/ Fetch(r)
        \/ Download(r)
        \/ Generate(r)
        \/ Parse(r)
        \/ Update(r)
        \/ Respond(r)

Spec == Init /\ [][Next]_vars

\* Overlapping invocations for one row, with the clock running.
ConcFields == [thumbnail_url |-> Some("t"), primary_image_url |-> None, image_urls |-> None]

InitConc ==
    /\ store = [i \in StoreIds |-> InitialRow(ConcFields)]
    /\ clock = 0
    /\ InitInv

NextConc ==
    \/ Tick
    \/ \E r \in Reqs :
        \/ ReceiveConcurrently(r)
        \/ Fetch(r)
        \/ Download(r)
        \/ GeminiConcurrently(r)
        \/ Update(r)
        \/ Respond(r)

SpecConc == InitConc /\ [][NextConc]_vars

\* ---------------------------------------------------------------- properties
Resp(r) == inv[r].response[1]
Answered(r) == inv[r].pc = "done"
IsPost(r) == inv[r].pc # "idle" /\ inv[r].method = "POST"
Sent(r) == inv[r].body[1]
NonEmpty(o) == Len(o) = 1 /\ o[1] # ""
Stages(r) == {inv[r].calls[i].stage : i \in DOMAIN inv[r].calls}
Called(r, stage, ok) == \E i \in DOMAIN inv[r].calls : inv[r].calls[i] = [stage |-> stage, ok |-> ok]
LastCall(r) == inv[r].calls[Len(inv[r].calls)]
IsErrorBody(resp) ==
    /\ resp.error # None /\ resp.analysis = None /\ resp.source_image_url = None
    /\ resp.content_type = Some("application/json")
Untouched(row) == row.ai_metadata = PriorMetadata /\ row.updated_at = 0

\* The URL a row offers: thumbnail, else primary, else the first of image_urls.
Preferred(rec) ==
    IF NonEmpty(rec.thumbnail_url) THEN rec.thumbnail_url
    ELSE IF NonEmpty(rec.primary_image_url) THEN rec.primary_image_url
    ELSE IF rec.image_urls # None /\ Len(rec.image_urls[1]) > 0
         THEN Some(Head(rec.image_urls[1]))
    ELSE None

\* C1: once the row is fetched, the resolved URL is thumbnail_url when that is
\* non-empty, else primary_image_url when non-empty, else the first element of
\* a non-empty image_urls; with all three empty or absent the request ends with
\* the input error of _select_image_url and returns no URL.
C1_SelectPriority ==
    \A r \in Reqs : inv[r].record # None =>
        LET rec == inv[r].record[1]
            lists == rec.image_urls # None /\ Len(rec.image_urls[1]) > 0
        IN  /\ NonEmpty(rec.thumbnail_url) => inv[r].derived_url = rec.thumbnail_url
            /\ ~NonEmpty(rec.thumbnail_url) /\ NonEmpty(rec.primary_image_url)
                  => inv[r].derived_url = rec.primary_image_url
            /\ ~NonEmpty(rec.thumbnail_url) /\ ~NonEmpty(rec.primary_image_url) /\ lists
                  => inv[r].derived_url = Some(rec.image_urls[1][1])
            /\ (NonEmpty(rec.thumbnail_url) \/ NonEmpty(rec.primary_image_url) \/ lists)
                  => Called(r, "select", TRUE)
            /\ ~NonEmpty(rec.thumbnail_url) /\ ~NonEmpty(rec.primary_image_url) /\ ~lists
                  => /\ Answered(r)
                     /\ LastCall(r) = [stage |-> "select", ok |-> FALSE]
                     /\ Resp(r) = JsonError(400,
                          <<"No usable image URL found in product_images record", "">>)

C1_Witness ==
    \E r \in Reqs :
        /\ inv[r].record # None
        /\ inv[r].record[1].thumbnail_url = Some("")
        /\ inv[r].record[1].primary_image_url = None
        /\ inv[r].record[1].image_urls = Some(<<"i", "">>)
        /\ inv[r].pc = "download"
        /\ inv[r].derived_url = Some("i")

\* The first part of a candidate that has text, if any.
TextParts(parts) == {i \in DOMAIN parts : NonEmpty(parts[i])}
FirstText(parts) == parts[CHOOSE i \in TextParts(parts) : \A j \in TextParts(parts) : i <= j][1]
ValidTexts == {TextA, TextB}

\* C2: when the image was downloaded and the first text segment of the model's
\* first candidate is not valid JSON, the handler answers 500 with an error
\* message that holds the raw text.
C2_NonJsonIs500 ==
    [][\A r \in Reqs :
        (/\ inv[r].pc = "parse" /\ inv'[r].pc # "parse"
         /\ inv[r].gemini_response[1] # <<>>
         /\ TextParts(inv[r].gemini_response[1][1]) # {}
         /\ FirstText(inv[r].gemini_response[1][1]) \notin ValidTexts)
        => /\ inv'[r].pc = "done"
           /\ inv'[r].response[1].status = 500
           /\ IsErrorBody(inv'[r].response[1])
           /\ inv'[r].response[1].error[1][2] = FirstText(inv[r].gemini_response[1][1])]_vars

\* C3: a request that supplies image_url and no product_image_id makes no
\* lookup and no update, whatever its outcome, and the row stays as it was.
C3_DirectUrlLeavesStore ==
    \A r \in Reqs :
        (IsPost(r) /\ Sent(r).kind = "object" /\ Sent(r).product_image_id = None
            /\ Sent(r).image_url # None)
        => /\ Stages(r) \cap {"fetch", "select", "update"} = {}
           /\ inv[r].pc \notin {"fetch", "update", "persisted"}
           /\ inv[r].record = None
           /\ \A i \in StoreIds : Untouched(store[i])

C3_Witness ==
    \E r \in Reqs :
        /\ Answered(r)
        /\ Sent(r).kind = "object" /\ Sent(r).product_image_id = None
        /\ Sent(r).image_url = Some("u")
        /\ Resp(r).status = 200
        /\ Called(r, "download", TRUE) /\ Called(r, "gemini", TRUE)

\* What C4 asks of a request: the URL downloaded and returned is the row's, not
\* the caller's, and without a row or a usable URL in it the request fails.
RecordUrlWins(r) ==
    /\ (inv[r].pc \in {"download", "gemini", "parse", "update", "persisted"}
            \/ "download" \in Stages(r) \/ (Answered(r) /\ Resp(r).status = 200))
        => /\ inv[r].record # None
           /\ NonEmpty(Preferred(inv[r].record[1]))
           /\ inv[r].derived_url = Preferred(inv[r].record[1])
    /\ (Answered(r) /\ Resp(r).status = 200)
        => /\ Resp(r).source_image_url = Preferred(inv[r].record[1])
           /\ Resp(r).source_image_url # inv[r].image_url
    /\ (Answered(r) /\ (inv[r].record = None \/ ~NonEmpty(Preferred(inv[r].record[1]))))
        => /\ Resp(r).status \in {400, 500}
           /\ IsErrorBody(Resp(r))
           /\ "download" \notin Stages(r)

\* C4 as claimed: for every request that supplies both product_image_id and
\* image_url, the record's URL wins and a failed lookup or resolution fails the
\* request.
C4_RecordUrlWins ==
    \A r \in Reqs :
        (IsPost(r) /\ Sent(r).kind = "object" /\ Sent(r).product_image_id # None
            /\ Sent(r).image_url # None)
        => RecordUrlWins(r)

\* C4, amended: for every request that supplies a non-empty product_image_id
\* and an image_url, the URL downloaded and returned as source_image_url is the
\* one resolved from the record, and a failed lookup or resolution fails the
\* request instead of falling back to the supplied image_url.
C4_NonEmptyIdRecordUrlWins ==
    \A r \in Reqs :
        (IsPost(r) /\ Sent(r).kind = "object" /\ NonEmpty(Sent(r).product_image_id)
            /\ Sent(r).image_url # None)
        => RecordUrlWins(r)

C4_Witness ==
    \E r \in Reqs :
        /\ Answered(r)
        /\ Sent(r).product_image_id = Some("a") /\ Sent(r).image_url = Some("u")
        /\ Answered(r) /\ Resp(r).status = 200
        /\ Resp(r).source_image_url = Some("p")
        /\ Called(r, "download", TRUE)

\* C5 as claimed: when a record-id request returns 200, the row's ai_metadata
\* is the analysis of that response and updated_at is not earlier than the
\* request's start, also when invocations overlap.
C5_RoundTripAtResponse ==
    [][\A r \in Reqs :
        (inv[r].pc # "done" /\ inv'[r].pc = "done" /\ inv'[r].response[1].status = 200
            /\ NonEmpty(inv'[r].image_id))
        => /\ store'[inv'[r].image_id[1]].ai_metadata = inv'[r].response[1].analysis[1]
           /\ store'[inv'[r].image_id[1]].updated_at >= inv'[r].started_at]_vars

\* C5, amended: a record-id request returns 200 only after its own write, and
\* that write leaves the row's ai_metadata equal to the analysis the response
\* then carries, replacing the prior content, with updated_at a time not
\* earlier than the request's start; the other fields of the row are kept.
C5_OwnWriteRoundTrip ==
    [][\A r \in Reqs :
        /\ (inv[r].pc = "update" /\ inv'[r].pc = "persisted")
            => LET id == inv[r].image_id[1]
               IN  /\ store'[id].ai_metadata = inv[r].analysis[1]
                   /\ store'[id].updated_at = inv[r].payload[1].updated_at
                   /\ store'[id].updated_at >= inv[r].started_at
                   /\ store'[id].thumbnail_url = store[id].thumbnail_url
                   /\ store'[id].primary_image_url = store[id].primary_image_url
                   /\ store'[id].image_urls = store[id].image_urls
                   /\ inv'[r].analysis = inv[r].analysis
        /\ (inv[r].pc # "done" /\ inv'[r].pc = "done" /\ inv'[r].response[1].status = 200
                /\ NonEmpty(inv'[r].image_id))
            => /\ inv[r].pc = "persisted"
               /\ inv'[r].response[1].analysis = inv[r].analysis]_vars

C5_Witness ==
    \E r, q \in Reqs :
        /\ r # q
        /\ Answered(r) /\ Resp(r).status = 200 /\ Called(r, "update", TRUE)
        /\ Called(q, "update", TRUE)
        /\ inv[q].analysis # inv[r].analysis
        /\ store["a"].ai_metadata = inv[q].analysis[1]

\* C6: a record-id request whose analysis succeeded and whose write failed
\* answers 500 with an error body that carries neither the analysis nor
\* source_image_url, and a record-id request answers 200 only when its write
\* went through.
C6_NoPartialSuccess ==
    \A r \in Reqs :
        /\ (Answered(r) /\ inv[r].calls # <<>> /\ LastCall(r).stage = "update")
            => IF LastCall(r).ok
               THEN /\ Resp(r).status = 200
                    /\ store[inv[r].image_id[1]].ai_metadata = Resp(r).analysis[1]
               ELSE /\ inv[r].analysis # None
                    /\ Resp(r).status = 500
                    /\ IsErrorBody(Resp(r))
                    /\ Untouched(store[inv[r].image_id[1]])
        /\ (Answered(r) /\ Resp(r).status = 200 /\ NonEmpty(inv[r].image_id))
            => /\ LastCall(r) = [stage |-> "update", ok |-> TRUE]
               /\ store[inv[r].image_id[1]].ai_metadata = Resp(r).analysis[1]

C6_Witness ==
    \E r \in Reqs :
        /\ Answered(r) /\ Called(r, "update", FALSE)
        /\ inv[r].analysis = Some(ObjA)
        /\ Resp(r).status = 500 /\ Resp(r).analysis = None

\* The status C7 gives a failed request, from the stage that failed.
StatusByClass(r) ==
    IF inv[r].calls = <<>> \/ LastCall(r).ok THEN 400       \* no image input
    ELSE IF LastCall(r).stage = "select" THEN 400            \* row without a URL
    ELSE IF LastCall(r).stage = "fetch"
              /\ Resp(r).error[1][1] = "No product_images row found for id "
         THEN 400                                            \* no row for the id
    ELSE 500

\* C7: a failed POST answers 400 for a caller-input failure (no image input, a
\* row without a usable URL, no row for the id, the message naming the id) and
\* 500 for every other failure (download, model, persistence), with the body
\* {"error": message}.
C7_StatusByFailureClass ==
    \A r \in Reqs :
        (Answered(r) /\ IsPost(r) /\ Resp(r).status # 200)
        => /\ IsErrorBody(Resp(r))
           /\ Resp(r).status = StatusByClass(r)
           /\ (inv[r].calls # <<>> /\ LastCall(r) = [stage |-> "fetch", ok |-> FALSE]
                 /\ Resp(r).status = 400)
               => Resp(r).error[1] = <<"No product_images row found for id ",
                                       inv[r].image_id[1]>>

StageIndex(stage) ==
    CASE stage = "fetch" -> 1 [] stage = "select" -> 2 [] stage = "download" -> 3
      [] stage = "gemini" -> 4 [] stage = "update" -> 5

\* The calls of one invocation are in stage order, none twice, none after one
\* that failed, and the write comes only after a lookup and an analysis that
\* succeeded for a supplied id.
StagesInOrder(r) ==
    LET L == inv[r].calls
    IN  /\ \A i, j \in DOMAIN L : i < j => StageIndex(L[i].stage) < StageIndex(L[j].stage)
        /\ \A i \in DOMAIN L : i < Len(L) => L[i].ok
        /\ (L # <<>> /\ ~LastCall(r).ok)
              => Answered(r) /\ Resp(r).status \in {400, 500}
        /\ ("select" \in Stages(r)) => Called(r, "fetch", TRUE)
        /\ ("download" \in Stages(r) /\ NonEmpty(inv[r].image_id))
              => Called(r, "select", TRUE)
        /\ ("gemini" \in Stages(r) \/ inv[r].pc \in {"gemini", "parse"})
              => Called(r, "download", TRUE)
        /\ ("update" \in Stages(r) \/ inv[r].pc \in {"update", "persisted"})
              => /\ NonEmpty(inv[r].image_id)
                 /\ Called(r, "fetch", TRUE)
                 /\ Called(r, "gemini", TRUE)
                 /\ inv[r].analysis # None
        /\ inv[r].response # NoResponse => Answered(r)

\* C8: within one request the stages run at most once each and in the order
\* lookup, resolution, download, model call, write, response; the first
\* failure ends the request; the write happens only for a supplied id whose
\* lookup succeeded and whose analysis succeeded; nothing follows the response.
C8_StagesOnceInOrder ==
    /\ [](\A r \in Reqs : StagesInOrder(r))
    /\ [][\A r \in Reqs : inv[r].pc \in {"done", "raised"} => inv'[r] = inv[r]]_vars

C8_Witness ==
    \E r \in Reqs :
        /\ Answered(r) /\ Resp(r).status = 200
        /\ inv[r].calls = <<[stage |-> "fetch", ok |-> TRUE], [stage |-> "select", ok |-> TRUE],
                            [stage |-> "download", ok |-> TRUE], [stage |-> "gemini", ok |-> TRUE],
                            [stage |-> "update", ok |-> TRUE]>>

\* How the handling of a model response must end, by C9.
GeminiContract(response, after) ==
    LET failed(template, detail) ==
            /\ after.pc = "done"
            /\ after.calls[Len(after.calls)] = [stage |-> "gemini", ok |-> FALSE]
            /\ after.response[1].error = Some(<<template, detail>>)
            /\ after.analysis = None
    IN  IF response = <<>>
        THEN failed("Gemini returned no candidates", "")
        ELSE IF TextParts(response[1]) = {}
        THEN failed("Gemini candidate had no textual JSON content", "")
        ELSE IF FirstText(response[1]) \notin ValidTexts
        THEN failed("Gemini response is not valid JSON: ", FirstText(response[1]))
        ELSE /\ after.analysis = Some(IF FirstText(response[1]) = TextA THEN ObjA ELSE ObjB)
             /\ after.calls[Len(after.calls)] = [stage |-> "gemini", ok |-> TRUE]
             /\ after.pc \in {"update", "done"}
             /\ after.pc = "done" => after.response[1].analysis = after.analysis

C10_AlwaysResponds ==
    \A r \in Reqs :
        /\ inv[r].pc # "raised"
        /\ (Answered(r) /\ inv[r].method # "POST")
            => Resp(r).status = 405 /\ inv[r].calls = <<>>
        /\ (Answered(r) /\ inv[r].method = "POST")
            => /\ Resp(r).status \in {200, 400, 500}
               /\ Resp(r).content_type = Some("application/json")

====
